---- MODULE Spec2Model ----
(***************************************************************************)
(* NeoLM backend: the per-session retrieval index (RAGSystem), the model   *)
(* catalog (ModelManager) and the session routes that drive them.          *)
(*                                                                         *)
(* The specifications share the state:                                     *)
(*   Spec         one RAGSystem instance driven directly through its       *)
(*                constructor, ingest_documents and query;                 *)
(*   RoutesSpec   the session registry of routes.py and its handlers, each *)
(*                handler run from request to response;                    *)
(*   UploadSpec   the registry and the three upload handlers;              *)
(*   ExtractSpec  DocumentProcessor.process_files on its own;              *)
(*   ConcSpec     the handlers as asyncio tasks that interleave at their   *)
(*                suspension points, and the directory tmp/ they share;    *)
(*   PollSpec     PodcastProcessor.generate_audio and its status loop.     *)
(***************************************************************************)
EXTENDS Naturals, Sequences, FiniteSets

VARIABLES
    rags,      \* heap of RAGSystem instances, in order of construction
    sessions,  \* SESSION_MANAGER["sessions"]: session id -> entry
    last,      \* the last completed call: its arguments and its outcome
    chroma_shared,  \* whether the build's in-memory Chroma clients share
                    \* the default collection "langchain"
    tasks,     \* the requests in flight: task id -> its locals
    tmp        \* the directory tmp/: path -> the file stored under it

vars == <<rags, sessions, last, chroma_shared, tasks, tmp>>

(***************************************************************************)
(* Bounds of the model.                                                    *)
(***************************************************************************)
MaxBatch == 2      \* documents per ingest call
MaxManifest == 4   \* manifest entries plus documents offered to one ingest

(***************************************************************************)
(* Values.                                                                 *)
(***************************************************************************)
None == [kind |-> "None"]
NoError == "none"

\* RecursiveCharacterTextSplitter(chunk_size=1000, chunk_overlap=200)
chunk_size == 1000
chunk_overlap == 200

\* A dict is a set of <<key, value>> pairs; dict.get(key, default).
Get(d, key, default) ==
    IF \E p \in d : p[1] = key
    THEN (CHOOSE p \in d : p[1] = key)[2]
    ELSE default

\* ProcessingResult(success, content, metadata = {}, error_message = "").
\* A content is its length in characters and whether it is whitespace only.
ProcessingResult(success, content, metadata, error_message) ==
    [success |-> success, content |-> content,
     metadata |-> metadata, error_message |-> error_message]

Text(n) == [len |-> n, blank |-> FALSE]
Blank(n) == [len |-> n, blank |-> TRUE]

\* "The sky is blue.": one chunk.
DocSky == ProcessingResult(TRUE, Text(16),
              {<<"type", "document">>, <<"path", "sky.txt">>}, "")
\* Longer than one chunk.
DocLong == ProcessingResult(TRUE, Text(1001),
              {<<"type", "text">>, <<"path", "long.txt">>}, "")
\* Whitespace only: non-empty content that splits into no chunk.
DocBlank == ProcessingResult(TRUE, Blank(2),
              {<<"type", "text">>, <<"path", "blank.txt">>}, "")
\* Extraction that succeeded with empty content (an empty image caption).
DocEmpty == ProcessingResult(TRUE, Text(0),
              {<<"type", "image">>, <<"path", "empty.png">>}, "")
\* A video whose transcription failed: _process_video keeps the prefix
\* "Video transcription:\n" as content and reports the audio's failure.
DocFailed == ProcessingResult(FALSE, Text(21),
              {<<"type", "video">>, <<"path", "clip.mp4">>},
              "No transcription received")

Documents == {DocSky, DocLong, DocBlank, DocEmpty, DocFailed}

RECURSIVE SeqsUpTo(_, _)
SeqsUpTo(S, n) ==
    IF n = 0 THEN {<<>>}
    ELSE LET shorter == SeqsUpTo(S, n - 1)
         IN shorter \cup {Append(s, x) : s \in {t \in shorter : Len(t) = n - 1}, x \in S}

Batches == SeqsUpTo(Documents, MaxBatch)

(***************************************************************************)
(* ModelManager.                                                           *)
(***************************************************************************)
models ==
    {"llama-3.3-70b-versatile", "deepseek-r1-distill-llama-70b",
     "claude-3-5-sonnet-20240620", "gpt-4o"}

model_exists(model_name) == model_name \in models

\* The model names a caller asks for: one per provider, and an unknown one.
RequestedModels == {"llama-3.3-70b-versatile", "gpt-4o", "invalid-model"}

(***************************************************************************)
(* RAGSystem.                                                              *)
(***************************************************************************)
\* The keyword parameters __init__ accepts.
RAGSystemParams == {"model_name"}

\* RAGSystem(**kwargs): Python raises TypeError for a keyword the signature
\* does not have, before the body runs; get_model raises ValueError for a
\* model that is not in the catalog.
RAGSystemInit(kwargs, model_name) ==
    IF ~(kwargs \subseteq RAGSystemParams)
    THEN [raised |-> "TypeError", rag |-> None]
    ELSE IF ~model_exists(model_name)
    THEN [raised |-> "ValueError: Model not found", rag |-> None]
    ELSE [raised |-> NoError,
          rag |-> [llm |-> model_name,
                   vector_store |-> None,
                   document_metadata |-> <<>>]]

\* text_splitter.split_text(content): the windows <<first, last>> of the
\* text, at most chunk_size long, each starting chunk_size - chunk_overlap
\* after the one before; whitespace-only and empty text give no chunk.
RECURSIVE Windows(_, _)
Windows(from, len) ==
    IF from + chunk_size >= len
    THEN << <<from + 1, len>> >>
    ELSE << <<from + 1, from + chunk_size>> >>
         \o Windows(from + (chunk_size - chunk_overlap), len)

split_text(content) ==
    IF content.len = 0 \/ content.blank THEN <<>> ELSE Windows(0, content.len)

\* Document(page_content=chunk, metadata=doc.metadata) for chunk in chunks
ChunkDocuments(doc) ==
    LET chunks == split_text(doc.content)
    IN [i \in 1..Len(chunks) |->
           [page_content |-> chunks[i], metadata |-> doc.metadata]]

\* if doc.success and doc.content
PassesFilter(doc) == doc.success /\ doc.content.len > 0

\* A loop body whose manifest append sits outside the filter.
LoopStep_AppendAlways(doc) ==
    [processed |-> IF doc.success /\ doc.content.len > 0
                   THEN [i \in 1..Len(split_text(doc.content)) |->
                            [page_content |-> split_text(doc.content)[i],
                             metadata |-> doc.metadata]]
                   ELSE <<>>,
     metadata |-> <<doc.metadata>>]

\* One turn of the loop of ingest_documents over a document: what it adds
\* to processed_docs and to self.document_metadata.
LoopStep(doc) ==
    IF PassesFilter(doc)
    THEN [processed |-> ChunkDocuments(doc), metadata |-> <<doc.metadata>>]
    ELSE [processed |-> <<>>, metadata |-> <<>>]

RECURSIVE Loop(_)
Loop(documents) ==
    IF documents = <<>>
    THEN [processed |-> <<>>, metadata |-> <<>>]
    ELSE LET head == LoopStep(Head(documents))
             rest == Loop(Tail(documents))
         IN [processed |-> head.processed \o rest.processed,
             metadata |-> head.metadata \o rest.metadata]

\* A store write that rebuilds the collection from the new batch alone.
StoreWrite_Rebuild(vector_store, processed_docs) ==
    [kind |-> "Chroma", docs |-> processed_docs]

\* A store write that skips the entries the collection already holds.
StoreWrite_Dedup(vector_store, processed_docs) ==
    IF vector_store = None
    THEN [kind |-> "Chroma", docs |-> processed_docs]
    ELSE [vector_store EXCEPT !.docs = @ \o
             SelectSeq(processed_docs,
                 LAMBDA d : \A i \in 1..Len(vector_store.docs) :
                                vector_store.docs[i] # d)]

\* Chroma.from_documents on the first write, add_documents afterwards.
\* Both embed the whole batch before they store anything.
StoreWrite(vector_store, processed_docs) ==
    IF vector_store = None
    THEN [kind |-> "Chroma", docs |-> processed_docs]
    ELSE [vector_store EXCEPT !.docs = @ \o processed_docs]

\* RAGSystem.ingest_documents: the instance it leaves and what it raised.
\* embed_ok is the outcome of the embedding collaborator inside the store
\* write.
ingest_documents(rag, documents, embed_ok) ==
    IF documents = <<>>
    THEN [rag |-> rag, raised |-> "ValueError: No documents provided"]
    ELSE LET loop == Loop(documents)
             looped == [rag EXCEPT
                           !.document_metadata = @ \o loop.metadata]
         IN IF loop.processed = <<>>
            THEN [rag |-> looped, raised |-> "ValueError: No valid documents"]
            ELSE IF ~embed_ok
            THEN [rag |-> looped, raised |-> "ProviderError"]
            ELSE [rag |-> [looped EXCEPT
                              !.vector_store = StoreWrite(@, loop.processed)],
                  raised |-> NoError]

\* RAGSystem.query: the text it returns or the exception it raises, and
\* which collaborators it called.
NoAnswer == "<no return value>"
Sentinel == "No documents loaded yet."

\* A query without the check for a missing vector store: the search runs
\* (and fails on None).
query_Unguarded(rag, question, k, search_ok, llm_ok) ==
    IF rag.vector_store = None \/ ~search_ok
    THEN [answer |-> NoAnswer,
          raised |-> IF rag.vector_store = None
                     THEN "AttributeError" ELSE "ProviderError",
          searched |-> TRUE, llm_called |-> FALSE]
    ELSE IF ~llm_ok
    THEN [answer |-> "Error: provider failure", raised |-> NoError,
          searched |-> TRUE, llm_called |-> TRUE]
    ELSE [answer |-> "response.content", raised |-> NoError,
          searched |-> TRUE, llm_called |-> TRUE]

query(rag, question, k, search_ok, llm_ok) ==
    IF rag.vector_store = None
    THEN [answer |-> Sentinel, raised |-> NoError,
          searched |-> FALSE, llm_called |-> FALSE]
    ELSE IF ~search_ok
    THEN [answer |-> NoAnswer, raised |-> "ProviderError",
          searched |-> TRUE, llm_called |-> FALSE]
    ELSE IF ~llm_ok
    THEN [answer |-> "Error: provider failure", raised |-> NoError,
          searched |-> TRUE, llm_called |-> TRUE]
    ELSE [answer |-> "response.content", raised |-> NoError,
          searched |-> TRUE, llm_called |-> TRUE]

\* get_ingested_documents_info: the sentinel, or one line per manifest entry.
get_ingested_documents_info(rag) ==
    IF rag.document_metadata = <<>>
    THEN <<"No documents ingested yet.">>
    ELSE [i \in 1..Len(rag.document_metadata) |->
             <<Get(rag.document_metadata[i], "path", "unknown"),
               Get(rag.document_metadata[i], "type", "unknown")>>]

(***************************************************************************)
(* DocumentProcessor.                                                      *)
(***************************************************************************)
\* What process_file is given: a path, and what the file system and the
\* collaborators answer for it.
\*   url          the path has scheme http or https
\*   exists       os.path.exists(path)
\*   within_size  os.path.getsize(path) <= Config.MAX_FILE_SIZE
\*   mime         _get_mime_type(path) as <<major, minor>>, <<>> for None
\*   readable     opening, converting or crawling the source raises nothing
\*   duration_ok  a video no longer than Config.MAX_AUDIO_LENGTH
\*   api_ok       the inference API answered with the expected payload
\*   content      the text the source holds (file text, page, transcript,
\*                caption)
Source(path, url, exists, within_size, mime, readable, duration_ok, api_ok, content) ==
    [path |-> path, url |-> url, exists |-> exists,
     within_size |-> within_size, mime |-> mime, readable |-> readable,
     duration_ok |-> duration_ok, api_ok |-> api_ok, content |-> content]

File(path, mime, readable, api_ok, content) ==
    Source(path, FALSE, TRUE, TRUE, mime, readable, TRUE, api_ok, content)

MimePptx ==
    <<"application",
      "vnd.openxmlformats-officedocument.presentationml.presentation">>

SrcUrl == Source("https://example.com", TRUE, FALSE, FALSE, <<>>, TRUE, TRUE,
                 TRUE, Text(16))
SrcUrlDown == [SrcUrl EXCEPT !.readable = FALSE]
SrcMissing == Source("nonexistent.txt", FALSE, FALSE, FALSE,
                     <<"text", "plain">>, FALSE, TRUE, TRUE, Text(0))
SrcLarge == Source("tmp/large.txt", FALSE, TRUE, FALSE, <<"text", "plain">>,
                   TRUE, TRUE, TRUE, Text(16))
SrcNoType == File("tmp/data.xyz", <<>>, TRUE, TRUE, Text(16))
SrcZip == File("tmp/data.zip", <<"application", "zip">>, TRUE, TRUE, Text(16))
SrcTxt == File("tmp/sky.txt", <<"text", "plain">>, TRUE, TRUE, Text(16))
SrcTxtLong == File("tmp/long.txt", <<"text", "plain">>, TRUE, TRUE, Text(1001))
SrcTxtBlank == File("tmp/blank.txt", <<"text", "plain">>, TRUE, TRUE, Blank(2))
SrcTxtBinary == File("tmp/binary.txt", <<"text", "plain">>, FALSE, TRUE,
                     Text(16))
SrcPdf == File("tmp/paper.pdf", <<"application", "pdf">>, TRUE, TRUE, Text(16))
SrcPdfBroken == [SrcPdf EXCEPT !.readable = FALSE]
SrcPptx == File("tmp/slides.pptx", MimePptx, TRUE, TRUE, Text(16))
SrcMp3 == File("tmp/talk.mp3", <<"audio", "mpeg">>, TRUE, TRUE, Text(16))
SrcMp3Silent == [SrcMp3 EXCEPT !.content = Text(0)]
SrcMp4 == File("tmp/clip.mp4", <<"video", "mp4">>, TRUE, TRUE, Text(16))
SrcMp4Silent == [SrcMp4 EXCEPT !.content = Text(0)]
SrcMp4Long == [SrcMp4 EXCEPT !.duration_ok = FALSE]
SrcPng == File("tmp/photo.png", <<"image", "png">>, TRUE, TRUE, Text(16))
SrcPngLoading == [SrcPng EXCEPT !.api_ok = FALSE]
SrcPngGone == [SrcPng EXCEPT !.readable = FALSE]

Sources ==
    {SrcUrl, SrcUrlDown, SrcMissing, SrcLarge, SrcNoType, SrcZip, SrcTxt,
     SrcTxtLong, SrcTxtBlank, SrcTxtBinary, SrcPdf, SrcPdfBroken, SrcPptx,
     SrcMp3, SrcMp3Silent, SrcMp4, SrcMp4Silent, SrcMp4Long, SrcPng,
     SrcPngLoading, SrcPngGone}

\* ProcessingResult(success=False, content="", error_message=...): the
\* metadata is the default, an empty dict.
Failure(error_message) == ProcessingResult(FALSE, Text(0), {}, error_message)

Metadata(type, path) == {<<"type", type>>, <<"path", path>>}

supported_types ==
    {<<"text", "plain">>, <<"text", "csv">>, <<"text", "markdown">>,
     <<"application", "pdf">>, <<"application", "msword">>,
     <<"application",
       "vnd.openxmlformats-officedocument.wordprocessingml.document">>,
     <<"application", "vnd.ms-powerpoint">>, MimePptx,
     <<"application", "vnd.ms-excel">>,
     <<"application",
       "vnd.openxmlformats-officedocument.spreadsheetml.sheet">>,
     <<"audio", "mpeg">>, <<"audio", "wav">>, <<"video", "mp4">>,
     <<"video", "x-msvideo">>, <<"image", "jpeg">>, <<"image", "png">>,
     <<"image", "gif">>}

_is_supported_file_type(mime) ==
    mime \in supported_types \/ mime[1] \in {"audio", "video", "image"}

_process_url(src) ==
    IF src.readable
    THEN ProcessingResult(TRUE, src.content, Metadata("url", src.path), "")
    ELSE Failure("Failed to crawl URL")

\* file_path is the file posted to the API: the source itself, or the
\* temporary .wav _process_video extracted from it.
_process_audio(file_path, src) ==
    IF ~src.readable \/ ~src.api_ok THEN Failure("audio request failed")
    ELSE IF src.content.len = 0 THEN Failure("No transcription received")
    ELSE ProcessingResult(TRUE, src.content, Metadata("audio", file_path), "")

_process_video(src) ==
    IF ~src.readable THEN Failure("video could not be opened")
    ELSE IF ~src.duration_ok THEN Failure("Video exceeds 300s")
    ELSE LET result == _process_audio("tmp/temp_clip.mp4.wav", src)
         IN ProcessingResult(result.success,
                \* f"Video transcription:\n{result.content}"
                Text(21 + result.content.len),
                Metadata("video", src.path),
                result.error_message)

\* A response that is not a list is a dict, whose "error" text (or the
\* default "Image processing failed") becomes the caption.
_process_image(src) ==
    IF ~src.readable THEN Failure("Image processing error")
    ELSE ProcessingResult(TRUE,
             IF src.api_ok THEN src.content ELSE Text(23),
             Metadata("image", src.path), "")

_process_document(src) ==
    IF ~src.readable THEN Failure("Docling error")
    ELSE IF src.mime \in {<<"application", "vnd.ms-powerpoint">>, MimePptx}
    THEN ProcessingResult(TRUE, src.content,
                          Metadata("presentation", src.path), "")
    ELSE ProcessingResult(TRUE, src.content,
                          Metadata("document", src.path), "")

process_file(src) ==
    IF src.url THEN _process_url(src)
    ELSE IF ~src.exists THEN Failure("File not found")
    ELSE IF ~src.within_size THEN Failure("File exceeds size limit")
    ELSE IF src.mime = <<>> THEN Failure("Unknown file type")
    ELSE IF ~_is_supported_file_type(src.mime)
    THEN Failure("Unsupported file type")
    ELSE IF src.mime[1] = "audio" THEN _process_audio(src.path, src)
    ELSE IF src.mime[1] = "video" THEN _process_video(src)
    ELSE IF src.mime[1] = "image" THEN _process_image(src)
    ELSE IF src.mime = <<"text", "plain">>
    THEN IF src.readable
         THEN ProcessingResult(TRUE, src.content,
                               Metadata("text", src.path), "")
         ELSE Failure("UnicodeDecodeError")
    ELSE _process_document(src)

\* A process_files that stops at the first path whose extraction fails.
process_files_FailFast(file_paths) ==
    LET firstBad ==
            IF \E i \in 1..Len(file_paths) : ~process_file(file_paths[i]).success
            THEN CHOOSE i \in 1..Len(file_paths) :
                    /\ ~process_file(file_paths[i]).success
                    /\ \A j \in 1..(i - 1) : process_file(file_paths[j]).success
            ELSE Len(file_paths) + 1
    IN [i \in 1..(firstBad - 1) |-> process_file(file_paths[i])]

\* asyncio.gather(*tasks): the results in the order of the paths.
process_files(file_paths) ==
    [i \in 1..Len(file_paths) |-> process_file(file_paths[i])]

(***************************************************************************)
(* The last completed call.                                                *)
(***************************************************************************)
NoCall ==
    [op |-> "none", r |-> 0, sid |-> "", model |-> "", batch |-> <<>>,
     question |-> "", k |-> 0, raised |-> NoError, answer |-> NoAnswer,
     searched |-> FALSE, llm_called |-> FALSE, status |-> 0,
     inputs |-> <<>>, ingest_called |-> FALSE, ingested |-> <<>>,
     successful_documents |-> <<>>, failed_documents |-> <<>>,
     listing |-> {}, ingested_documents |-> <<>>]

Questions == {"", "What color is the sky?"}
Ks == {0, 5}

NoSession == [kind |-> "absent"]
SessionIds == {"s1", "s2"}

\* The asyncio tasks that serve requests; a task without a request is idle.
TaskIds == {"t1", "t2"}
IdleTask == [pc |-> "idle"]

\* The paths the handlers write under tmp/ and what a path without a file
\* holds. The directory is followed in ConcSpec, where requests overlap.
TmpPaths == {"tmp/paper.pdf", "tmp/data.zip", "tmp/sky.txt"}
NoFile == [kind |-> "no file"]

Init ==
    /\ rags = <<>>
    /\ sessions = [sid \in SessionIds |-> NoSession]
    /\ last = NoCall
    /\ chroma_shared \in BOOLEAN
    /\ tasks = [t \in TaskIds |-> IdleTask]
    /\ tmp = [p \in TmpPaths |-> NoFile]

(***************************************************************************)
(* Spec: one instance, called directly as the unit tests do.               *)
(***************************************************************************)
\* rag = RAGSystem(model_name)
Construct(model_name) ==
    /\ rags = <<>>
    /\ LET made == RAGSystemInit({"model_name"}, model_name)
       IN /\ rags' = IF made.raised = NoError THEN <<made.rag>> ELSE rags
          /\ last' = [NoCall EXCEPT !.op = "construct", !.model = model_name,
                                    !.r = Len(rags'), !.raised = made.raised]
    /\ UNCHANGED <<sessions, chroma_shared, tasks, tmp>>

\* await rag.ingest_documents(documents)
Ingest(r, documents, embed_ok) ==
    /\ r \in DOMAIN rags
    /\ Len(rags[r].document_metadata) + Len(documents) <= MaxManifest
    /\ LET done == ingest_documents(rags[r], documents, embed_ok)
       IN /\ rags' = [rags EXCEPT ![r] = done.rag]
          /\ last' = [NoCall EXCEPT !.op = "ingest", !.r = r,
                                    !.batch = documents,
                                    !.raised = done.raised]
    /\ UNCHANGED <<sessions, chroma_shared, tasks, tmp>>

\* await rag.query(question, k)
Query(r, question, k, search_ok, llm_ok) ==
    /\ r \in DOMAIN rags
    /\ LET done == query(rags[r], question, k, search_ok, llm_ok)
       IN last' = [NoCall EXCEPT !.op = "query", !.r = r,
                                 !.question = question, !.k = k,
                                 !.raised = done.raised,
                                 !.answer = done.answer,
                                 !.searched = done.searched,
                                 !.llm_called = done.llm_called]
    /\ UNCHANGED <<rags, sessions, chroma_shared, tasks, tmp>>

Next ==
    \/ \E m \in RequestedModels : Construct(m)
    \/ \E r \in 1..1, b \in Batches, e \in BOOLEAN : Ingest(r, b, e)
    \/ \E r \in 1..1, q \in Questions, k \in Ks, s \in BOOLEAN, l \in BOOLEAN :
           Query(r, q, k, s, l)

Spec == Init /\ [][Next]_vars

(***************************************************************************)
(* ExtractSpec: the document processor, called directly as its unit tests  *)
(* do.                                                                     *)
(***************************************************************************)
MaxFiles == 2   \* paths given to one process_files call

\* result = await processor.process_file(file_path)
ProcessFile(src) ==
    /\ last' = [NoCall EXCEPT !.op = "process_file", !.inputs = <<src>>,
                              !.batch = <<process_file(src)>>]
    /\ UNCHANGED <<rags, sessions, chroma_shared, tasks, tmp>>

\* results = await processor.process_files(file_paths)
ProcessFiles(file_paths) ==
    /\ last' = [NoCall EXCEPT !.op = "process_files", !.inputs = file_paths,
                              !.batch = process_files(file_paths)]
    /\ UNCHANGED <<rags, sessions, chroma_shared, tasks, tmp>>

ExtractNext ==
    \/ \E src \in Sources : ProcessFile(src)
    \/ \E file_paths \in SeqsUpTo(Sources, MaxFiles) : ProcessFiles(file_paths)

ExtractSpec == Init /\ [][ExtractNext]_vars

(***************************************************************************)
(* RoutesSpec: the session registry and the handlers of routes.py, each    *)
(* handler run from request to response.                                   *)
(***************************************************************************)
MaxRags == 2   \* RAGSystem instances constructed in one run

\* The keyword arguments create_session and switch_model pass to RAGSystem.
RouteKwargs == {"session_id", "model_name", "chunk_size", "chunk_overlap"}

\* What a registry entry can be built from: no document, one document, and
\* a pair whose first document splits into no chunk.
SeedBatches == {<<>>, <<DocSky>>, <<DocBlank, DocLong>>}

\* What extraction hands to create_session.
CreateResults == SeedBatches \cup {<<DocFailed>>, <<DocFailed, DocSky>>}

Successful(results) == SelectSeq(results, LAMBDA d : d.success)

Entry(r, docs) == [kind |-> "session", rag |-> r, docs |-> docs]

Http(op, sid, model_name, status, detail) ==
    [NoCall EXCEPT !.op = op, !.sid = sid, !.model = model_name,
                   !.status = status, !.raised = detail]

Failed(results) == SelectSeq(results, LAMBDA d : ~d.success)

\* The entries of the collection the in-memory Chroma clients of the process
\* have in common, when they have one in common: Chroma.from_documents is
\* called without a collection name, a client or a persist directory, so
\* every instance's store is the default collection of the default client.
Collection(heap) ==
    IF \E i \in DOMAIN heap : heap[i].vector_store # None
    THEN heap[CHOOSE i \in DOMAIN heap : heap[i].vector_store # None]
             .vector_store.docs
    ELSE <<>>

\* heap[r].ingest_documents(documents) as the routes call it: the heap it
\* leaves and what it raised. With shared clients the entries written
\* through one instance land in the one collection, which every populated
\* instance reads.
IngestAt(heap, r, documents, embed_ok, shared) ==
    LET done == ingest_documents(heap[r], documents, embed_ok)
        wrote == done.rag.vector_store # heap[r].vector_store
        before == IF heap[r].vector_store = None
                  THEN 0 ELSE Len(heap[r].vector_store.docs)
        collection ==
            Collection(heap) \o
                SubSeq(done.rag.vector_store.docs, before + 1,
                       Len(done.rag.vector_store.docs))
    IN [raised |-> done.raised,
        heap |->
            IF shared /\ wrote
            THEN [i \in DOMAIN heap |->
                    IF i = r
                    THEN [done.rag EXCEPT !.vector_store.docs = collection]
                    ELSE IF heap[i].vector_store # None
                    THEN [heap[i] EXCEPT !.vector_store.docs = collection]
                    ELSE heap[i]]
            ELSE [heap EXCEPT ![r] = done.rag]]

\* A registry entry put in place the way the route tests do it: an instance
\* built by RAGSystem(model_name), the documents ingested when there are
\* any, and {"rag": rag, "docs": docs} stored under the session id. (No
\* entry can come from create_session, see CreateSession.)
SeedSession(sid, model_name, docs) ==
    /\ sessions[sid] = NoSession
    /\ Len(rags) < MaxRags
    /\ LET made == RAGSystemInit({"model_name"}, model_name)
           done == IF docs = <<>>
                   THEN [heap |-> Append(rags, made.rag), raised |-> NoError]
                   ELSE IngestAt(Append(rags, made.rag), Len(rags) + 1, docs,
                                 TRUE, chroma_shared)
       IN /\ made.raised = NoError
          /\ done.raised = NoError
          /\ rags' = done.heap
          /\ sessions' = [sessions EXCEPT ![sid] = Entry(Len(rags) + 1, docs)]
          /\ last' = [NoCall EXCEPT !.op = "seed", !.sid = sid,
                                    !.model = model_name, !.batch = docs,
                                    !.r = Len(rags) + 1]
    /\ UNCHANGED <<chroma_shared, tasks, tmp>>

\* POST /sessions. results is what process_files returned for the request's
\* inputs; sid is the fresh uuid.
CreateSession(sid, results, model_name, embed_ok) ==
    /\ sessions[sid] = NoSession
    /\ Len(rags) < MaxRags
    /\ LET successful == Successful(results)
           made == RAGSystemInit(RouteKwargs, model_name)
           done == IF successful = <<>>
                   THEN [heap |-> Append(rags, made.rag), raised |-> NoError]
                   ELSE IngestAt(Append(rags, made.rag), Len(rags) + 1,
                                 successful, embed_ok, chroma_shared)
       IN IF made.raised # NoError
          THEN /\ last' = [Http("create_session", sid, model_name, 500,
                                made.raised) EXCEPT !.batch = results]
               /\ UNCHANGED <<rags, sessions, chroma_shared, tasks, tmp>>
          ELSE IF done.raised # NoError
          THEN /\ last' = [Http("create_session", sid, model_name, 500,
                                done.raised) EXCEPT !.batch = results]
               /\ UNCHANGED <<rags, sessions, chroma_shared, tasks, tmp>>
          ELSE /\ rags' = done.heap
               /\ sessions' = [sessions EXCEPT
                                  ![sid] = Entry(Len(rags) + 1, successful)]
               /\ last' = [Http("create_session", sid, model_name, 200,
                                NoError) EXCEPT !.batch = results,
                                                !.r = Len(rags) + 1]
               /\ UNCHANGED <<chroma_shared, tasks, tmp>>

\* A query_session that indexes the registry instead of using .get: a
\* missing session raises KeyError before the handler's try block.
QuerySession_Indexing(sid, question, search_ok, llm_ok) ==
    /\ IF sessions[sid] = NoSession
       THEN last' = Http("query_session", sid, "", 500, "KeyError")
       ELSE LET done == query(rags[sessions[sid].rag], question, 5,
                              search_ok, llm_ok)
            IN last' = [Http("query_session", sid, "",
                             IF done.raised = NoError THEN 200 ELSE 500,
                             done.raised)
                           EXCEPT !.question = question, !.k = 5,
                                  !.r = sessions[sid].rag,
                                  !.answer = done.answer,
                                  !.searched = done.searched,
                                  !.llm_called = done.llm_called]
    /\ UNCHANGED <<rags, sessions, chroma_shared, tasks, tmp>>

\* POST /sessions/{session_id}/query
QuerySession(sid, question, search_ok, llm_ok) ==
    /\ IF sessions[sid] = NoSession
       THEN last' = Http("query_session", sid, "", 404, "Session not found")
       ELSE LET done == query(rags[sessions[sid].rag], question, 5,
                              search_ok, llm_ok)
            IN last' = [Http("query_session", sid, "",
                             IF done.raised = NoError THEN 200 ELSE 500,
                             done.raised)
                           EXCEPT !.question = question, !.k = 5,
                                  !.r = sessions[sid].rag,
                                  !.answer = done.answer,
                                  !.searched = done.searched,
                                  !.llm_called = done.llm_called]
    /\ UNCHANGED <<rags, sessions, chroma_shared, tasks, tmp>>

\* A switch_model that builds the new instance before it looks at the
\* model name.
SwitchModel_ConstructFirst(sid, model_name, embed_ok) ==
    /\ last' = IF sessions[sid] = NoSession
               THEN Http("switch_model", sid, model_name, 404,
                         "Session not found")
               ELSE Http("switch_model", sid, model_name, 500,
                         RAGSystemInit(RouteKwargs, model_name).raised)
    /\ UNCHANGED <<rags, sessions, chroma_shared, tasks, tmp>>

\* A switch_model that unregisters the session when building the new
\* instance fails.
SwitchModel_DropOnFailure(sid, model_name, embed_ok) ==
    IF sessions[sid] = NoSession
    THEN /\ last' = Http("switch_model", sid, model_name, 404,
                         "Session not found")
         /\ UNCHANGED <<rags, sessions, chroma_shared, tasks, tmp>>
    ELSE IF ~model_exists(model_name)
    THEN /\ last' = Http("switch_model", sid, model_name, 400,
                         "Model not found")
         /\ UNCHANGED <<rags, sessions, chroma_shared, tasks, tmp>>
    ELSE LET made == RAGSystemInit(RouteKwargs, model_name)
             done == IF made.raised # NoError
                     THEN [heap |-> rags, raised |-> made.raised]
                     ELSE IngestAt(Append(rags, made.rag), Len(rags) + 1,
                                   sessions[sid].docs, embed_ok,
                                   chroma_shared)
         IN IF done.raised # NoError
            THEN /\ last' = Http("switch_model", sid, model_name, 500,
                                 done.raised)
                 /\ sessions' = [sessions EXCEPT ![sid] = NoSession]
                 /\ UNCHANGED <<rags, chroma_shared, tasks, tmp>>
            ELSE /\ rags' = done.heap
                 /\ sessions' = [sessions EXCEPT ![sid].rag = Len(rags) + 1]
                 /\ last' = [Http("switch_model", sid, model_name, 200,
                                  NoError) EXCEPT !.r = Len(rags) + 1]
                 /\ UNCHANGED <<chroma_shared, tasks, tmp>>

\* PUT /sessions/{session_id}/model
SwitchModel(sid, model_name, embed_ok) ==
    IF sessions[sid] = NoSession
    THEN /\ last' = Http("switch_model", sid, model_name, 404,
                         "Session not found")
         /\ UNCHANGED <<rags, sessions, chroma_shared, tasks, tmp>>
    ELSE IF ~model_exists(model_name)
    THEN /\ last' = Http("switch_model", sid, model_name, 400,
                         "Model not found")
         /\ UNCHANGED <<rags, sessions, chroma_shared, tasks, tmp>>
    ELSE LET made == RAGSystemInit(RouteKwargs, model_name)
             done == IF made.raised # NoError
                     THEN [heap |-> rags, raised |-> made.raised]
                     ELSE IngestAt(Append(rags, made.rag), Len(rags) + 1,
                                   sessions[sid].docs, embed_ok,
                                   chroma_shared)
         IN IF done.raised # NoError
            THEN /\ last' = Http("switch_model", sid, model_name, 500,
                                 done.raised)
                 /\ UNCHANGED <<rags, sessions, chroma_shared, tasks, tmp>>
            ELSE /\ rags' = done.heap
                 /\ sessions' = [sessions EXCEPT ![sid].rag = Len(rags) + 1]
                 /\ last' = [Http("switch_model", sid, model_name, 200,
                                  NoError) EXCEPT !.r = Len(rags) + 1]
                 /\ UNCHANGED <<chroma_shared, tasks, tmp>>

\* A delete_session that answers 404 for an id that is not registered.
DeleteSession_Strict(sid) ==
    /\ sessions' = [sessions EXCEPT ![sid] = NoSession]
    /\ last' = IF sessions[sid] = NoSession
               THEN Http("delete_session", sid, "", 404, "Session not found")
               ELSE Http("delete_session", sid, "", 200, NoError)
    /\ UNCHANGED <<rags, chroma_shared, tasks, tmp>>

\* DELETE /sessions/{session_id}
DeleteSession(sid) ==
    /\ sessions' = [sessions EXCEPT ![sid] = NoSession]
    /\ last' = Http("delete_session", sid, "", 200, NoError)
    /\ UNCHANGED <<rags, chroma_shared, tasks, tmp>>

\* The attributes __init__ sets on a RAGSystem and on a ModelManager.
RAGSystemAttributes ==
    {"embeddings", "text_splitter", "vector_store", "model_manager", "llm",
     "document_metadata"}
ModelManagerAttributes == {"models"}

hasattr(attributes, name) == name \in attributes

\* The entry list_sessions builds for one registered session. The model
\* name is read from rag.model_manager.model_name or rag.model_name when
\* the attribute exists, and is "unknown" otherwise.
SessionSummary(sid) ==
    [id |-> sid,
     document_count |-> Len(sessions[sid].docs),
     model_name |->
         IF /\ hasattr(RAGSystemAttributes, "model_manager")
            /\ hasattr(ModelManagerAttributes, "model_name")
         THEN "rag.model_manager.model_name"
         ELSE IF hasattr(RAGSystemAttributes, "model_name")
         THEN "rag.model_name"
         ELSE "unknown"]

\* GET /sessions
ListSessions ==
    /\ last' = [Http("list_sessions", "", "", 200, NoError)
                   EXCEPT !.listing =
                       {SessionSummary(sid) :
                           sid \in {id \in SessionIds :
                                       sessions[id] # NoSession}}]
    /\ UNCHANGED <<rags, sessions, chroma_shared, tasks, tmp>>

\* The uploads a request carries. Each file is first written to
\* tmp/<filename>, so what process_files is given exists and is no URL.
UploadBatches == {<<SrcZip>>, <<SrcTxtBlank>>, <<SrcPdf, SrcPngGone, SrcMp3>>}

UploadTexts == {Text(16)}

\* len(url) of the urls posted to upload-url
UploadUrlLengths == {19}

MaxUploaded == 3   \* manifest entries in the heap once an upload is accepted

\* The manifest entries of all instances together.
RECURSIVE TotalManifest(_)
TotalManifest(heap) ==
    IF heap = <<>>
    THEN 0
    ELSE Len(heap[Len(heap)].document_metadata)
             + TotalManifest(SubSeq(heap, 1, Len(heap) - 1))

\* The body the three upload handlers share once the inputs are files under
\* tmp/: look the session up, extract, ingest the successful results into
\* the session's instance, extend its docs, answer. The lookup's
\* HTTPException(404) is raised inside the try block and leaves through
\* except Exception as HTTPException(500, str(e)).
Upload(op, sid, file_paths, embed_ok) ==
    IF sessions[sid] = NoSession
    THEN /\ last' = [Http(op, sid, "", 500, "404: Session not found")
                        EXCEPT !.inputs = file_paths]
         /\ UNCHANGED <<rags, sessions, chroma_shared, tasks, tmp>>
    ELSE LET r == sessions[sid].rag
             results == process_files(file_paths)
             successful == Successful(results)
             failed == Failed(results)
             done == IF successful = <<>>
                     THEN [heap |-> rags, raised |-> NoError]
                     ELSE IngestAt(rags, r, successful, embed_ok,
                                   chroma_shared)
             ok == done.raised = NoError
         IN /\ TotalManifest(rags) + Len(file_paths) <= MaxUploaded
            /\ rags' = done.heap
            /\ sessions' = IF ok
                           THEN [sessions EXCEPT ![sid].docs = @ \o successful]
                           ELSE sessions
            /\ last' =
                 [Http(op, sid, "", IF ok THEN 200 ELSE 500, done.raised)
                    EXCEPT !.r = r,
                           !.inputs = file_paths,
                           !.batch = results,
                           !.ingest_called = successful # <<>>,
                           !.ingested = successful,
                           !.successful_documents =
                               IF ok
                               THEN [i \in 1..Len(successful) |->
                                        successful[i].metadata]
                               ELSE <<>>,
                           !.failed_documents =
                               IF ok
                               THEN [i \in 1..Len(failed) |->
                                        [path |-> Get(failed[i].metadata,
                                                      "path", "unknown"),
                                         error |-> failed[i].error_message]]
                               ELSE <<>>]
            /\ UNCHANGED <<chroma_shared, tasks, tmp>>

\* POST /sessions/{session_id}/upload
UploadToSession(sid, files, embed_ok) ==
    Upload("upload_to_session", sid, files, embed_ok)

\* POST /sessions/upload-text
UploadText(sid, text, embed_ok) ==
    Upload("upload_text", sid,
           <<File("tmp/plain_text_uuid.txt", <<"text", "plain">>, TRUE, TRUE,
                  text)>>,
           embed_ok)

\* POST /sessions/upload-url: the url is not fetched; a text file naming it
\* ("URL: {url}\n\n" and a 67-character notice) is ingested in its place.
UploadUrl(sid, url_length, embed_ok) ==
    Upload("upload_url", sid,
           <<File("tmp/url_uuid.txt", <<"text", "plain">>, TRUE, TRUE,
                  Text(5 + url_length + 2 + 67))>>,
           embed_ok)

UploadOps == {"upload_to_session", "upload_text", "upload_url"}

RoutesNext ==
    \/ \E sid \in SessionIds, m \in RequestedModels, b \in SeedBatches :
           SeedSession(sid, m, b)
    \/ \E sid \in SessionIds, b \in CreateResults, m \in RequestedModels,
          e \in BOOLEAN : CreateSession(sid, b, m, e)
    \/ \E sid \in SessionIds, q \in Questions, s \in BOOLEAN, l \in BOOLEAN :
           QuerySession(sid, q, s, l)
    \/ \E sid \in SessionIds, m \in RequestedModels, e \in BOOLEAN :
           SwitchModel(sid, m, e)
    \/ \E sid \in SessionIds : DeleteSession(sid)
    \/ ListSessions

RoutesSpec == Init /\ [][RoutesNext]_vars

(***************************************************************************)
(* UploadSpec: sessions that receive further documents. The registry and   *)
(* the three upload handlers.                                              *)
(***************************************************************************)
UploadNext ==
    \/ \E sid \in SessionIds, m \in {"llama-3.3-70b-versatile"},
          b \in SeedBatches :
           SeedSession(sid, m, b)
    \/ \E sid \in SessionIds, f \in UploadBatches, e \in BOOLEAN :
           UploadToSession(sid, f, e)
    \/ \E sid \in SessionIds, t \in UploadTexts, e \in BOOLEAN :
           UploadText(sid, t, e)
    \/ \E sid \in SessionIds, n \in UploadUrlLengths, e \in BOOLEAN :
           UploadUrl(sid, n, e)

UploadSpec == Init /\ [][UploadNext]_vars

(***************************************************************************)
(* ConcSpec: requests served concurrently on one event loop. A handler     *)
(* runs without interruption up to an await that suspends it; another      *)
(* task's step may come in between. The awaits that suspend are            *)
(* processor.process_files (asyncio.gather) in create_session and in the   *)
(* uploads, and chain.ainvoke in RAGSystem.query. ingest_documents awaits  *)
(* nothing, so `await rag.ingest_documents(...)` runs to its end, and      *)
(* switch_model, delete_session and get_session_info are single steps.     *)
(***************************************************************************)
\* A request that is suspended: where, and the locals it holds. r is the
\* instance the handler captured (rag = session["rag"]).
Suspended(pc, op, sid, r, inputs, model_name, question) ==
    [pc |-> pc, op |-> op, sid |-> sid, r |-> r, inputs |-> inputs,
     model |-> model_name, question |-> question, results |-> <<>>]

\* Another upload named paper.pdf, with other bytes.
SrcPdfRevised == [SrcPdf EXCEPT !.content = Text(32)]

ConcUploads == {<<SrcPdf>>, <<SrcPdfRevised>>, <<SrcZip>>}
ConcCreates == {<<SrcTxt>>}

\* The server with one session in its registry, put there as SeedSession
\* does: an instance that has ingested one document, stored under "s1".
ConcInit ==
    /\ rags = <<ingest_documents(
                    RAGSystemInit({"model_name"},
                                  "llama-3.3-70b-versatile").rag,
                    <<DocSky>>, TRUE).rag>>
    /\ sessions = [sid \in SessionIds |->
                      IF sid = "s1" THEN Entry(1, <<DocSky>>) ELSE NoSession]
    /\ last = NoCall
    /\ chroma_shared \in BOOLEAN
    /\ tasks = [t \in TaskIds |-> IdleTask]
    /\ tmp = [p \in TmpPaths |-> NoFile]

\* The files held by the uploads that are suspended.
RECURSIVE InFlight(_, _)
InFlight(ts, pending) ==
    IF pending = {}
    THEN 0
    ELSE LET t == CHOOSE x \in pending : TRUE
         IN (IF ts[t].pc \in {"extracting", "extracted"}
             THEN Len(ts[t].inputs) ELSE 0)
                + InFlight(ts, pending \ {t})

\* open(temp_path, "wb") and f.write(...) for each uploaded file, in order:
\* the directory afterwards.
Saved(fs, files) ==
    [p \in DOMAIN fs |->
        IF \E i \in 1..Len(files) : files[i].path = p
        THEN files[CHOOSE i \in 1..Len(files) :
                      /\ files[i].path = p
                      /\ \A j \in (i + 1)..Len(files) : files[j].path # p]
        ELSE fs[p]]

\* os.remove(path) for each path that exists: the directory afterwards.
Removed(fs, files) ==
    [p \in DOMAIN fs |->
        IF \E i \in 1..Len(files) : files[i].path = p THEN NoFile ELSE fs[p]]

\* What process_file finds under the paths it is given.
OnDisk(fs, files) ==
    [i \in 1..Len(files) |->
        IF fs[files[i].path] = NoFile
        THEN [files[i] EXCEPT !.exists = FALSE]
        ELSE fs[files[i].path]]

\* upload_to_session up to `await processor.process_files(file_paths)`:
\* the lookup, and the uploaded files written under tmp/<filename>.
UploadStart(t, sid, files) ==
    /\ tasks[t] = IdleTask
    /\ IF sessions[sid] = NoSession
       THEN /\ last' = [Http("upload_to_session", sid, "", 500,
                             "404: Session not found")
                           EXCEPT !.inputs = files]
            /\ UNCHANGED <<tasks, tmp>>
       ELSE /\ TotalManifest(rags) + InFlight(tasks, TaskIds) + Len(files)
                   <= MaxUploaded
            /\ tasks' = [tasks EXCEPT ![t] =
                            Suspended("extracting", "upload_to_session", sid,
                                      sessions[sid].rag, files, "", "")]
            /\ tmp' = Saved(tmp, files)
            /\ UNCHANGED last
    /\ UNCHANGED <<rags, sessions, chroma_shared>>

\* The coroutines asyncio.gather scheduled for a suspended create_session
\* or upload run: each reads what its path holds by now.
AwaitProcessFiles(t) ==
    /\ tasks[t] # IdleTask
    /\ tasks[t].pc = "extracting"
    /\ tasks' = [tasks EXCEPT
                    ![t].pc = "extracted",
                    ![t].results = process_files(OnDisk(tmp, tasks[t].inputs))]
    /\ UNCHANGED <<rags, sessions, last, chroma_shared, tmp>>

\* upload_to_session from the results of process_files to the response. The
\* handler still holds the session dict and the instance it looked up
\* before it was suspended: it ingests into that instance and extends that
\* dict's docs, whether or not the registry still holds them.
UploadFinish(t, embed_ok) ==
    /\ tasks[t] # IdleTask
    /\ tasks[t].pc = "extracted"
    /\ tasks[t].op = "upload_to_session"
    /\ LET sid == tasks[t].sid
           r == tasks[t].r
           results == tasks[t].results
           successful == Successful(results)
           failed == Failed(results)
           done == IF successful = <<>>
                   THEN [heap |-> rags, raised |-> NoError]
                   ELSE IngestAt(rags, r, successful, embed_ok, chroma_shared)
           ok == done.raised = NoError
           held == sessions[sid] # NoSession /\ sessions[sid].rag = r
       IN /\ rags' = done.heap
          /\ sessions' = IF ok /\ held
                         THEN [sessions EXCEPT ![sid].docs = @ \o successful]
                         ELSE sessions
          /\ tmp' = IF ok THEN Removed(tmp, tasks[t].inputs) ELSE tmp
          /\ last' =
               [Http("upload_to_session", sid, "",
                     IF ok THEN 200 ELSE 500, done.raised)
                  EXCEPT !.r = r,
                         !.inputs = tasks[t].inputs,
                         !.batch = results,
                         !.ingest_called = successful # <<>>,
                         !.ingested = successful,
                         !.successful_documents =
                             IF ok
                             THEN [i \in 1..Len(successful) |->
                                      successful[i].metadata]
                             ELSE <<>>,
                         !.failed_documents =
                             IF ok
                             THEN [i \in 1..Len(failed) |->
                                      [path |-> Get(failed[i].metadata,
                                                    "path", "unknown"),
                                       error |-> failed[i].error_message]]
                             ELSE <<>>]
    /\ tasks' = [tasks EXCEPT ![t] = IdleTask]
    /\ UNCHANGED chroma_shared

\* create_session up to `await processor.process_files(file_paths)`: the
\* uploaded files written under tmp/<filename>.
CreateStart(t, inputs, model_name) ==
    /\ tasks[t] = IdleTask
    /\ tasks' = [tasks EXCEPT ![t] =
                    Suspended("extracting", "create_session", "", 0, inputs,
                              model_name, "")]
    /\ tmp' = Saved(tmp, inputs)
    /\ UNCHANGED <<rags, sessions, last, chroma_shared>>

\* A create_session that stores the registry entry as soon as the instance
\* exists, built with the parameters __init__ accepts, and leaves the
\* ingest for later.
CreateFinish_RegisterFirst(t, sid, embed_ok) ==
    /\ tasks[t] # IdleTask
    /\ tasks[t].pc = "extracted"
    /\ tasks[t].op = "create_session"
    /\ sessions[sid] = NoSession
    /\ Len(rags) < MaxRags
    /\ LET results == tasks[t].results
           made == RAGSystemInit({"model_name"}, tasks[t].model)
       IN /\ made.raised = NoError
          /\ rags' = Append(rags, made.rag)
          /\ sessions' = [sessions EXCEPT
                             ![sid] = Entry(Len(rags) + 1, Successful(results))]
          /\ last' = [Http("create_session", sid, tasks[t].model, 200, NoError)
                        EXCEPT !.inputs = tasks[t].inputs, !.batch = results]
          /\ tmp' = Removed(tmp, tasks[t].inputs)
    /\ tasks' = [tasks EXCEPT ![t] = IdleTask]
    /\ UNCHANGED chroma_shared

\* create_session from the results of process_files to the response: the
\* fresh id, the instance, its ingest, the registry entry, and the removal
\* of the temporary files, which an exception skips. sid is the uuid.
CreateFinish(t, sid, embed_ok) ==
    /\ tasks[t] # IdleTask
    /\ tasks[t].pc = "extracted"
    /\ tasks[t].op = "create_session"
    /\ sessions[sid] = NoSession
    /\ Len(rags) < MaxRags
    /\ LET results == tasks[t].results
           successful == Successful(results)
           made == RAGSystemInit(RouteKwargs, tasks[t].model)
           done == IF made.raised # NoError
                   THEN [heap |-> rags, raised |-> made.raised]
                   ELSE IF successful = <<>>
                   THEN [heap |-> Append(rags, made.rag), raised |-> NoError]
                   ELSE IngestAt(Append(rags, made.rag), Len(rags) + 1,
                                 successful, embed_ok, chroma_shared)
           ok == done.raised = NoError
       IN /\ rags' = IF ok THEN done.heap ELSE rags
          /\ sessions' = IF ok
                         THEN [sessions EXCEPT
                                  ![sid] = Entry(Len(rags) + 1, successful)]
                         ELSE sessions
          /\ last' = [Http("create_session", sid, tasks[t].model,
                           IF ok THEN 200 ELSE 500, done.raised)
                        EXCEPT !.inputs = tasks[t].inputs, !.batch = results]
          /\ tmp' = IF ok THEN Removed(tmp, tasks[t].inputs) ELSE tmp
    /\ tasks' = [tasks EXCEPT ![t] = IdleTask]
    /\ UNCHANGED chroma_shared

\* query_session up to `await chain.ainvoke(...)` inside rag.query: the
\* lookup and the similarity search. Without a store, or when the search
\* raises, the request ends here.
QueryStart(t, sid, question, search_ok) ==
    /\ tasks[t] = IdleTask
    /\ IF sessions[sid] = NoSession
       THEN /\ last' = Http("query_session", sid, "", 404, "Session not found")
            /\ UNCHANGED tasks
       ELSE LET done == query(rags[sessions[sid].rag], question, 5,
                              search_ok, TRUE)
            IN IF done.llm_called
               THEN /\ tasks' = [tasks EXCEPT ![t] =
                                    Suspended("answering", "query_session",
                                              sid, sessions[sid].rag, <<>>,
                                              "", question)]
                    /\ UNCHANGED last
               ELSE /\ last' = [Http("query_session", sid, "",
                                     IF done.raised = NoError
                                     THEN 200 ELSE 500,
                                     done.raised)
                                  EXCEPT !.question = question, !.k = 5,
                                         !.r = sessions[sid].rag,
                                         !.answer = done.answer,
                                         !.searched = done.searched]
                    /\ UNCHANGED tasks
    /\ UNCHANGED <<rags, sessions, chroma_shared, tmp>>

\* query_session from the model's reply to the response
QueryFinish(t, llm_ok) ==
    /\ tasks[t] # IdleTask
    /\ tasks[t].pc = "answering"
    /\ LET done == query(rags[tasks[t].r], tasks[t].question, 5, TRUE, llm_ok)
       IN last' = [Http("query_session", tasks[t].sid, "", 200, NoError)
                     EXCEPT !.question = tasks[t].question, !.k = 5,
                            !.r = tasks[t].r,
                            !.answer = done.answer,
                            !.searched = TRUE,
                            !.llm_called = TRUE]
    /\ tasks' = [tasks EXCEPT ![t] = IdleTask]
    /\ UNCHANGED <<rags, sessions, chroma_shared, tmp>>

\* GET /sessions/{session_id}/info
GetSessionInfo(sid) ==
    /\ last' = IF sessions[sid] = NoSession
               THEN Http("get_session_info", sid, "", 404, "Session not found")
               ELSE [Http("get_session_info", sid, "", 200, NoError)
                       EXCEPT !.r = sessions[sid].rag,
                              !.ingested_documents =
                                  get_ingested_documents_info(
                                      rags[sessions[sid].rag])]
    /\ UNCHANGED <<rags, sessions, chroma_shared, tasks, tmp>>

ConcNext ==
    \/ \E t \in TaskIds, f \in ConcCreates : CreateStart(t, f, "gpt-4o")
    \/ \E t \in TaskIds : AwaitProcessFiles(t)
    \/ \E t \in TaskIds, sid \in SessionIds, e \in BOOLEAN :
           CreateFinish(t, sid, e)
    \/ \E t \in TaskIds, sid \in SessionIds, f \in ConcUploads :
           UploadStart(t, sid, f)
    \/ \E t \in TaskIds, e \in BOOLEAN : UploadFinish(t, e)
    \/ \E t \in TaskIds, sid \in SessionIds, s \in BOOLEAN :
           QueryStart(t, sid, "What color is the sky?", s)
    \/ \E t \in TaskIds, l \in BOOLEAN : QueryFinish(t, l)
    \/ \E sid \in SessionIds : GetSessionInfo(sid)
    \/ \E sid \in SessionIds, m \in RequestedModels : SwitchModel(sid, m, TRUE)
    \/ \E sid \in SessionIds : DeleteSession(sid)

ConcSpec == ConcInit /\ [][ConcNext]_vars

(***************************************************************************)
(* PollSpec: PodcastProcessor.generate_audio and its status loop. The call *)
(* is synchronous (requests and time.sleep), so while one task is inside   *)
(* it no other task runs. A task inside the loop is either about to send   *)
(* the status request ("polling") or in time.sleep(5) ("sleeping").        *)
(***************************************************************************)
MaxPolls == 3   \* status requests counted for one job

\* The answers of GET /api/v1/tts/{job_id}: response.ok, the status under
\* "output" ("absent" when the body carries none) and the url under "output".
StatusResponse(ok, status, url) == [ok |-> ok, status |-> status, url |-> url]

StatusResponses ==
    {StatusResponse(FALSE, "absent", ""),
     StatusResponse(TRUE, "absent", ""),
     StatusResponse(TRUE, "IN_PROGRESS", ""),
     StatusResponse(TRUE, "FAILED", ""),
     StatusResponse(TRUE, "COMPLETED", "https://audio/1.mp3")}

\* The ids VOICES yields for a host's voice name; None for a name it lacks.
VoiceIds == {None, [kind |-> "id"]}

\* The status codes of POST /api/v1/tts/
PostStatusCodes == {201, 500}

\* A task inside _poll_audio_job; polls counts the status requests sent so
\* far, up to MaxPolls.
Polling(pc, polls) == [pc |-> pc, op |-> "generate_audio", polls |-> polls]

\* generate_audio up to the first iteration of the loop in _poll_audio_job
GenerateAudio(t, voice1_id, voice2_id, status_code) ==
    /\ \A u \in TaskIds : tasks[u] = IdleTask
    /\ IF voice1_id = None \/ voice2_id = None
       THEN /\ last' = [NoCall EXCEPT !.op = "generate_audio",
                                      !.raised = "ValueError"]
            /\ UNCHANGED tasks
       ELSE IF status_code # 201
       THEN /\ last' = [NoCall EXCEPT !.op = "generate_audio",
                                      !.status = status_code,
                                      !.raised = "TTS API error"]
            /\ UNCHANGED tasks
       ELSE /\ tasks' = [tasks EXCEPT ![t] = Polling("polling", 0)]
            /\ UNCHANGED last
    /\ UNCHANGED <<rags, sessions, chroma_shared, tmp>>

\* One iteration of `while True` in _poll_audio_job, from requests.get to
\* the return, the raise, or the call of time.sleep(5).
PollRequest(t, response) ==
    /\ tasks[t].pc = "polling"
    /\ LET polls == IF tasks[t].polls < MaxPolls
                    THEN tasks[t].polls + 1
                    ELSE tasks[t].polls
           done == [NoCall EXCEPT !.op = "_poll_audio_job", !.k = polls]
       IN IF ~response.ok
          THEN /\ last' = [done EXCEPT !.raised = "Status check failed"]
               /\ tasks' = [tasks EXCEPT ![t] = IdleTask]
          ELSE IF response.status = "COMPLETED"
          THEN /\ last' = [done EXCEPT !.answer = response.url]
               /\ tasks' = [tasks EXCEPT ![t] = IdleTask]
          ELSE IF response.status = "FAILED"
          THEN /\ last' = [done EXCEPT !.raised = "Audio generation failed"]
               /\ tasks' = [tasks EXCEPT ![t] = IdleTask]
          ELSE /\ tasks' = [tasks EXCEPT ![t] = Polling("sleeping", polls)]
               /\ UNCHANGED last
    /\ UNCHANGED <<rags, sessions, chroma_shared, tmp>>

\* time.sleep(5) returns and the loop starts its next iteration.
PollSleep(t) ==
    /\ tasks[t].pc = "sleeping"
    /\ tasks' = [tasks EXCEPT ![t] = Polling("polling", tasks[t].polls)]
    /\ UNCHANGED <<rags, sessions, last, chroma_shared, tmp>>

PollNext ==
    \/ \E t \in TaskIds, v1 \in VoiceIds, v2 \in VoiceIds :
           \E c \in PostStatusCodes : GenerateAudio(t, v1, v2, c)
    \/ \E t \in TaskIds, response \in StatusResponses :
           PollRequest(t, response)
    \/ \E t \in TaskIds : PollSleep(t)

\* The loop keeps running: a request that can be sent is sent, a sleep
\* that was started ends.
PollFairness ==
    \A t \in TaskIds :
        /\ WF_vars(\E response \in StatusResponses : PollRequest(t, response))
        /\ WF_vars(PollSleep(t))

PollSpec == Init /\ [][PollNext]_vars /\ PollFairness

(***************************************************************************)
(* Properties of one RAGSystem instance (checked under Spec).              *)
(***************************************************************************)
Populated(rag) == rag.vector_store # None
Entries(rag) == IF Populated(rag) THEN Len(rag.vector_store.docs) ELSE 0

\* C1: query on an instance on which no ingest has succeeded (no vector
\* store) returns the sentinel "No documents loaded yet." as a normal
\* result: nothing is raised, and neither the similarity search nor the
\* language model is called.
C1_QueryEmptyReturnsSentinel ==
    (last.op = "query" /\ ~Populated(rags[last.r])) =>
        /\ last.answer = Sentinel
        /\ last.raised = NoError
        /\ ~last.searched
        /\ ~last.llm_called

\* A query answered on an instance whose only ingest failed.
C1_Witness ==
    /\ last.op = "query"
    /\ ~Populated(rags[last.r])
    /\ rags[last.r].document_metadata # <<>>
    /\ last.answer = Sentinel

\* C2: query always returns text: whichever collaborator fails, nothing is
\* raised to the caller.
C2_QueryAlwaysReturnsText ==
    last.op = "query" => (last.raised = NoError /\ last.answer # NoAnswer)

\* C3: ingest of an empty batch, or of a batch in which every record has
\* success = false or empty content, raises the no-valid-documents
\* ValueError and leaves the manifest and the vector store as they were.
Unusable(doc) == ~doc.success \/ doc.content.len = 0

NoValidDocuments ==
    {"ValueError: No documents provided", "ValueError: No valid documents"}

C3_NothingUsableStep ==
    (last'.op = "ingest"
        /\ \A i \in 1..Len(last'.batch) : Unusable(last'.batch[i])) =>
        /\ last'.raised \in NoValidDocuments
        /\ rags' = rags

\* C3: every ingest of an empty or wholly unusable batch raises the
\* no-valid-documents error and changes nothing.
C3_NothingUsableFails == [][C3_NothingUsableStep]_vars

\* A rejected batch of failed records, offered to a populated instance.
C3_Witness ==
    /\ last.op = "ingest"
    /\ last.batch # <<>>
    /\ \A i \in 1..Len(last.batch) : Unusable(last.batch[i])
    /\ last.raised = "ValueError: No valid documents"
    /\ Populated(rags[last.r])

\* C4: the manifest holds exactly one entry per document whose chunks are
\* in the vector store, in ingestion order. (A document's first chunk is
\* the one whose window starts at character 1.)
IndexedDocuments(rag) ==
    IF Populated(rag)
    THEN LET firsts == SelectSeq(rag.vector_store.docs,
                           LAMBDA d : d.page_content[1] = 1)
         IN [i \in 1..Len(firsts) |-> firsts[i].metadata]
    ELSE <<>>

\* C4: in every state the manifest of each instance is the sequence of its
\* indexed documents; in particular a failed ingest has added no entry.
C4_ManifestMatchesIndex ==
    \A r \in DOMAIN rags : rags[r].document_metadata = IndexedDocuments(rags[r])

\* C5: a document that passes the filter and splits into zero chunks is a
\* no-op: an ingest that succeeds appends to the manifest the metadata of
\* the documents that produced chunks, and nothing else.
RECURSIVE ChunkedMetadata(_)
ChunkedMetadata(documents) ==
    IF documents = <<>> THEN <<>>
    ELSE LET d == Head(documents)
         IN (IF d.success /\ d.content.len > 0 /\ ~d.content.blank
             THEN <<d.metadata>> ELSE <<>>)
            \o ChunkedMetadata(Tail(documents))

C5_ZeroChunkStep ==
    (last'.op = "ingest" /\ last'.raised = NoError) =>
        rags'[last'.r].document_metadata =
            rags[last'.r].document_metadata \o ChunkedMetadata(last'.batch)

\* C5: every successful ingest appends manifest entries for exactly the
\* documents that produced chunks; a zero-chunk document adds none.
C5_ZeroChunkDocumentIsNoOp == [][C5_ZeroChunkStep]_vars

\* C6: lifecycle of an instance. It is constructed without a vector store;
\* the store appears only in an ingest that succeeds; an ingest that fails
\* on an instance without a store leaves it without one; and a store, once
\* there, never goes away and never loses an entry.
C6_LifecycleStep ==
    /\ \A r \in DOMAIN rags' :
          r \notin DOMAIN rags => ~Populated(rags'[r])
    /\ \A r \in DOMAIN rags :
          /\ r \in DOMAIN rags'
          /\ (~Populated(rags[r]) /\ Populated(rags'[r])) =>
                (last'.op = "ingest" /\ last'.r = r /\ last'.raised = NoError)
          /\ (~Populated(rags[r]) /\ last'.op = "ingest" /\ last'.r = r
                /\ last'.raised # NoError) => ~Populated(rags'[r])
          /\ (last'.op = "ingest" /\ last'.r = r /\ last'.raised = NoError) =>
                Populated(rags'[r])
          /\ Populated(rags[r]) =>
                (Populated(rags'[r]) /\ Entries(rags'[r]) >= Entries(rags[r]))

\* C6: every step respects the lifecycle EMPTY -> POPULATED, and the
\* number of entries of a populated instance never decreases.
C6_Lifecycle == [][C6_LifecycleStep]_vars

\* A populated instance that has just been through a failed ingest.
C6_Witness ==
    /\ last.op = "ingest"
    /\ last.raised # NoError
    /\ Populated(rags[last.r])
    /\ Entries(rags[last.r]) >= 2

\* C7: no deduplication. Ingesting a batch of valid documents into an
\* instance that holds exactly one ingest of that batch leaves the store
\* with twice the chunks and the manifest with each metadata twice.
RECURSIVE ExpectedChunks(_)
ExpectedChunks(documents) ==
    IF documents = <<>> THEN <<>>
    ELSE LET d == Head(documents)
             n == IF d.content.len <= chunk_size THEN 1
                  ELSE 1 + ((d.content.len - chunk_size
                             + (chunk_size - chunk_overlap) - 1)
                            \div (chunk_size - chunk_overlap))
         IN [i \in 1..n |-> d.metadata] \o ExpectedChunks(Tail(documents))

ExpectedMetadata(documents) ==
    [i \in 1..Len(documents) |-> documents[i].metadata]

ValidBatch(documents) ==
    /\ documents # <<>>
    /\ \A i \in 1..Len(documents) :
          /\ documents[i].success
          /\ documents[i].content.len > 0
          /\ ~documents[i].content.blank

StoredMetadata(rag) ==
    IF Populated(rag)
    THEN [i \in 1..Len(rag.vector_store.docs) |->
             rag.vector_store.docs[i].metadata]
    ELSE <<>>

HoldsOnce(rag, documents) ==
    /\ StoredMetadata(rag) = ExpectedChunks(documents)
    /\ rag.document_metadata = ExpectedMetadata(documents)

HoldsTwice(rag, documents) ==
    /\ StoredMetadata(rag) = ExpectedChunks(documents) \o ExpectedChunks(documents)
    /\ Entries(rag) = 2 * Len(ExpectedChunks(documents))
    /\ rag.document_metadata =
          ExpectedMetadata(documents) \o ExpectedMetadata(documents)

C7_SecondIngestStep ==
    (last'.op = "ingest" /\ last'.raised = NoError
        /\ ValidBatch(last'.batch)
        /\ HoldsOnce(rags[last'.r], last'.batch)) =>
        HoldsTwice(rags'[last'.r], last'.batch)

\* C7: every second successful ingest of the same valid batch doubles the
\* chunks and the manifest entries of the first.
C7_NoDeduplication == [][C7_SecondIngestStep]_vars

\* The same two-chunk document ingested twice: four entries, two manifest
\* lines.
C7_Witness ==
    /\ last.op = "ingest"
    /\ last.raised = NoError
    /\ last.batch = <<DocLong>>
    /\ HoldsTwice(rags[last.r], last.batch)

(***************************************************************************)
(* Properties of switch_model (checked under RoutesSpec).                  *)
(***************************************************************************)
Registered(sid) == sessions[sid] # NoSession

\* The switch_model request that has just completed was addressed to a
\* registered session, named a catalog model, and no collaborator failed.
SwitchServed ==
    /\ last'.op = "switch_model"
    /\ Registered(last'.sid)
    /\ model_exists(last'.model)
    /\ last'.raised # "ProviderError"

\* C8: switch-model builds a new index bound to the requested model,
\* replays the session's retained documents into it and installs it; the
\* document count is unchanged and the old instance is not mutated.
C8_SwitchStep ==
    SwitchServed =>
        LET sid == last'.sid
            old == sessions[sid].rag
            new == sessions'[sid].rag
        IN /\ last'.status = 200
           /\ new \notin DOMAIN rags
           /\ new \in DOMAIN rags'
           /\ rags'[new].llm = last'.model
           /\ rags'[new].document_metadata =
                 Loop(sessions[sid].docs).metadata
           /\ sessions'[sid].docs = sessions[sid].docs
           /\ rags'[old] = rags[old]

\* C8: every served switch-model installs a fresh instance bound to the
\* requested model with the retained documents replayed, keeping the
\* document count and leaving the old instance as it was.
C8_SwitchInstallsFreshIndex == [][C8_SwitchStep]_vars

\* C9: switch-model to a catalog model succeeds whether or not the session
\* retains documents: without documents the session ends with an instance
\* bound to the new model that has no vector store, with documents with a
\* populated one.
C9_SwitchSucceedsInEitherState ==
    (last.op = "switch_model" /\ Registered(last.sid)
        /\ model_exists(last.model) /\ last.raised # "ProviderError") =>
        /\ last.status = 200
        /\ rags[sessions[last.sid].rag].llm = last.model
        /\ Populated(rags[sessions[last.sid].rag])
              <=> (sessions[last.sid].docs # <<>>)

\* C10: switch-model with a model name outside the catalog is answered 400
\* for a registered session, and 404 for an unregistered session id
\* whatever the model name; either way no instance is constructed and the
\* registry (index, bound model, retained documents) is unchanged.
C10_RejectedSwitchStep ==
    (last'.op = "switch_model"
        /\ (~Registered(last'.sid) \/ ~model_exists(last'.model))) =>
        /\ last'.status = IF Registered(last'.sid) THEN 400 ELSE 404
        /\ sessions' = sessions
        /\ rags' = rags

\* C10: every switch-model naming an unknown model (400) or an unknown
\* session (404) is rejected without constructing an instance or changing
\* the registry.
C10_UnknownModelRejected == [][C10_RejectedSwitchStep]_vars

\* A registered session with documents that has just refused an unknown
\* model.
C10_Witness ==
    /\ last.op = "switch_model"
    /\ last.status = 400
    /\ ~model_exists(last.model)
    /\ Registered(last.sid)
    /\ sessions[last.sid].docs # <<>>

\* C26: a switch-model on a registered session to a catalog model that
\* raises while the new instance is constructed or re-ingested.
C26_FailedSwitchStep ==
    (last'.op = "switch_model" /\ Registered(last'.sid)
        /\ model_exists(last'.model) /\ last'.raised # NoError) =>
        /\ last'.status = 500
        /\ sessions' = sessions
        /\ rags' = rags

\* C26: a switch-model that raises ends with an error response and leaves
\* the session with its previous instance, previous bound model and the
\* same retained documents, and every instance as it was.
C26_FailedSwitchLeavesSession == [][C26_FailedSwitchStep]_vars

\* A session with documents that has just answered 500 to a switch to
\* another catalog model and is still bound to its previous model.
C26_Witness ==
    /\ last.op = "switch_model"
    /\ last.status = 500
    /\ model_exists(last.model)
    /\ Registered(last.sid)
    /\ sessions[last.sid].docs # <<>>
    /\ Populated(rags[sessions[last.sid].rag])
    /\ rags[sessions[last.sid].rag].llm # last.model

(***************************************************************************)
(* Properties of the other handlers (checked under RoutesSpec).            *)
(***************************************************************************)
\* C11: query-session with a session id that is not in the registry is
\* answered 404 "Session not found"; no index and no collaborator is
\* invoked and the registry is unchanged.
C11_UnknownSessionStep ==
    (last'.op = "query_session" /\ ~Registered(last'.sid)) =>
        /\ last'.status = 404
        /\ last'.raised = "Session not found"
        /\ ~last'.searched
        /\ ~last'.llm_called
        /\ last'.answer = NoAnswer
        /\ sessions' = sessions
        /\ rags' = rags

\* C11: every query-session on an unregistered id ends 404 and changes
\* nothing.
C11_QueryUnknownSession404 == [][C11_UnknownSessionStep]_vars

\* A 404 for a session that existed and has been deleted.
C11_Witness ==
    /\ last.op = "query_session"
    /\ last.status = 404
    /\ Len(rags) >= 1
    /\ \A sid \in SessionIds : ~Registered(sid)

\* C13: delete-session answers the same success response whether or not the
\* id is registered; afterwards the id is absent, a delete of an absent id
\* changes nothing, and no other session's entry (nor any instance) is
\* altered.
C13_DeleteStep ==
    last'.op = "delete_session" =>
        /\ last' = Http("delete_session", last'.sid, "", 200, NoError)
        /\ sessions'[last'.sid] = NoSession
        /\ \A other \in SessionIds \ {last'.sid} :
               sessions'[other] = sessions[other]
        /\ ~Registered(last'.sid) => sessions' = sessions
        /\ rags' = rags
C13_DeleteIdempotent == [][C13_DeleteStep]_vars

\* a delete has answered while another session, holding documents, is
\* registered
C13_Witness ==
    /\ last.op = "delete_session"
    /\ last.status = 200
    /\ \E other \in SessionIds \ {last.sid} :
           /\ Registered(other)
           /\ sessions[other].docs # <<>>

\* C14: create-session with no successfully extracted document answers 200
\* and registers the session.
C14_EmptyCreateSucceeds ==
    (last.op = "create_session" /\ Successful(last.batch) = <<>>) =>
        /\ last.status = 200
        /\ Registered(last.sid)
        /\ last.successful_documents = <<>>
\* C16: list-sessions gives one summary per registered session, whose model
\* name is the model the session's instance is bound to and whose document
\* count is the number of retained documents.
C16_ListingNamesBoundModel ==
    last.op = "list_sessions" =>
        /\ {e.id : e \in last.listing} = {sid \in SessionIds : Registered(sid)}
        /\ Cardinality(last.listing)
               = Cardinality({sid \in SessionIds : Registered(sid)})
        /\ \A e \in last.listing :
               /\ e.document_count = Len(sessions[e.id].docs)
               /\ e.model_name = rags[sessions[e.id].rag].llm

(***************************************************************************)
(* Argument checks of query (checked under Spec).                          *)
(***************************************************************************)
\* C22: a query with k <= 0 or with an empty question is rejected with
\* InvalidArgument before any I/O: no similarity search and no call of the
\* language model is made for it.
C22_BadArgumentsRejected ==
    (last.op = "query" /\ (last.k <= 0 \/ last.question = "")) =>
        /\ last.raised = "InvalidArgument"
        /\ ~last.searched
        /\ ~last.llm_called

(***************************************************************************)
(* Properties of the upload handlers (checked under UploadSpec)            *)
(***************************************************************************)
\* C12: an upload (files, text or url) addressed to an id that is not in the
\* registry is answered 404, extracts nothing and ingests nothing.
C12_UploadUnknownSession404 ==
    (last.op \in UploadOps /\ ~Registered(last.sid)) =>
        /\ last.status = 404
        /\ last.batch = <<>>
        /\ ~last.ingest_called

\* C15: extraction of a batch never aborts on a document that fails.
\* process_files gives one result per input, in input order; the successful
\* and the failed results partition them; ingest is called with exactly the
\* successful ones, when there is one; and the only errors an upload
\* reports are those of ingest.
C15_ExtractionNeverAborts ==
    (last.op \in UploadOps /\ Registered(last.sid)) =>
        /\ Len(last.batch) = Len(last.inputs)
        /\ \A i \in 1..Len(last.inputs) :
               /\ last.batch[i] = process_file(last.inputs[i])
               /\ last.batch[i].success =>
                      Get(last.batch[i].metadata, "path", "unknown")
                          = last.inputs[i].path
        /\ last.ingest_called <=>
               \E i \in 1..Len(last.batch) : last.batch[i].success
        /\ last.ingested = Successful(last.batch)
        /\ \A i \in 1..Len(last.ingested) : last.ingested[i].success
        /\ last.raised \in
               {NoError, "ValueError: No valid documents", "ProviderError"}
        /\ last.raised # NoError => last.ingest_called
        /\ last.status = 200 =>
               /\ Len(last.successful_documents) + Len(last.failed_documents)
                      = Len(last.inputs)
               /\ Len(last.successful_documents) = Len(last.ingested)

\* three files of which the second fails extraction: two successful
\* documents, one failed, and the two were ingested
C15_Witness ==
    /\ last.op = "upload_to_session"
    /\ last.status = 200
    /\ Len(last.inputs) = 3
    /\ ~last.batch[2].success
    /\ Len(last.successful_documents) = 2
    /\ Len(last.failed_documents) = 1
    /\ Len(last.ingested) = 2
    /\ Len(rags[last.r].document_metadata) >= 2
\* C19: a request on one session leaves every other registered session as
\* it was: its retained documents, its instance's index entries, manifest
\* and model.
C19_IsolationStep ==
    last'.sid \in SessionIds =>
        \A other \in SessionIds \ {last'.sid} :
            Registered(other) =>
                /\ sessions'[other] = sessions[other]
                /\ rags'[sessions[other].rag] = rags[sessions[other].rag]
C19_SessionsIsolated == [][C19_IsolationStep]_vars

(***************************************************************************)
(* Properties of extraction (checked under ExtractSpec)                    *)
(***************************************************************************)
ContentTypes ==
    {"document", "text", "audio", "video", "image", "url", "presentation"}

\* C20: every record extraction produces, successful or failed, carries
\* metadata with a type among the content types and with path equal to the
\* source it was produced from.
C20_EveryRecordCarriesTypeAndPath ==
    last.op \in {"process_file", "process_files"} =>
        \A i \in 1..Len(last.batch) :
            /\ Get(last.batch[i].metadata, "type", "missing") \in ContentTypes
            /\ Get(last.batch[i].metadata, "path", "missing")
                   = last.inputs[i].path

\* C21: a record that failed has empty content, and a record that succeeded
\* has an empty error message, whatever path produced it.
C21_FailedEmptySucceededClean ==
    last.op \in {"process_file", "process_files"} =>
        \A i \in 1..Len(last.batch) :
            /\ ~last.batch[i].success => last.batch[i].content.len = 0
            /\ last.batch[i].success => last.batch[i].error_message = ""

(***************************************************************************)
(* Properties of concurrent requests (checked under ConcSpec)              *)
(***************************************************************************)
\* The session's instance exists and has ingested every retained document:
\* each is in the manifest and, if it splits into chunks, in the store.
SessionBuilt(sid) ==
    /\ sessions[sid].rag \in DOMAIN rags
    /\ LET rag == rags[sessions[sid].rag]
           docs == sessions[sid].docs
       IN \A i \in 1..Len(docs) :
             /\ \E j \in 1..Len(rag.document_metadata) :
                    rag.document_metadata[j] = docs[i].metadata
             /\ ChunkDocuments(docs[i]) # <<>> =>
                    \E j \in 1..Entries(rag) :
                        rag.vector_store.docs[j].metadata = docs[i].metadata

C18_OneMutationInFlight ==
    \A sid \in SessionIds :
        Cardinality({t \in TaskIds :
                        /\ tasks[t] # IdleTask
                        /\ tasks[t].op = "upload_to_session"
                        /\ tasks[t].sid = sid}) <= 1

\* The chunks of a retained document are in the instance's vector store.
Indexed(doc, rag) ==
    /\ Populated(rag)
    /\ \A i \in 1..Len(ChunkDocuments(doc)) :
          \E j \in 1..Len(rag.vector_store.docs) :
              rag.vector_store.docs[j] = ChunkDocuments(doc)[i]

\* An upload to the session is between its start and its completion.
UploadInFlight(sid) ==
    \E t \in TaskIds :
        /\ tasks[t] # IdleTask
        /\ tasks[t].op = "upload_to_session"
        /\ tasks[t].sid = sid

C25_RequestsExtractTheirOwnBytes ==
    (/\ last.op \in {"create_session", "upload_to_session"}
     /\ last.raised # "404: Session not found") =>
        last.batch = process_files(last.inputs)

(***************************************************************************)
(* Properties of the status loop (checked under PollSpec)                  *)
(***************************************************************************)
\* C23: polling of a submitted job is bounded: whatever the service
\* answers, a task that has entered the status loop leaves it, with the
\* url, with an error, or with a timeout.
C23_PollingIsBounded ==
    \A t \in TaskIds : (tasks[t].pc = "polling") ~> (tasks[t] = IdleTask)
====
